---- MODULE Spec2Model ----
(***************************************************************************)
(* RSS-bot: the ingestion-to-publication pipeline of src/src/scheduler.py, *)
(* src/src/publisher.py and src/src/bot.py over the tables of              *)
(* src/src/database.py.                                                    *)
(*                                                                         *)
(* The store is a transactional record store read at "read committed":     *)
(* a session sees the committed rows plus its own flushed rows, and a      *)
(* commit publishes all of a session's flushed rows at once or, when it    *)
(* fails, none of them.  A session whose flush or commit raised accepts no  *)
(* further statement until it is rolled back (the code never rolls back).  *)
(* Primary keys are handed out in increasing order.                        *)
(* QueueItem.last_attempt_at and QueueItem.channel_id are written or       *)
(* declared by the code and never read by it; they are left out.           *)
(***************************************************************************)
EXTENDS Integers, Sequences, FiniteSets, TLC

\* ------------------------------------------------------------- bounds
NumFeeds == 2
NumWorkers == 2
MaxItems == 2
MaxQueue == 2
\* the most entries one parse of a document yields
MaxEntries == 2
\* the most article regions one HTML page holds
MaxRegions == 11
\* the number of configured admins
NumAdmins == 3
\* the most queue rows that are due at once
MaxDue == 11
\* the most letters and other characters in the title and summary of an entry
MaxText == 3

\* ------------------------------------------------ program constants
RetryAttempts == 3
BatchLimit == 10
\* articles[:10] of _parse_html_fallback
ArticleLimit == 10
\* limit(10) of _create_digest
DigestLimit == 10
\* hashtags[:5] of _generate_hashtags
HashtagLimit == 5

Feeds == 1..NumFeeds
Workers == 1..NumWorkers
Guids == {"a", "b"}
\* what one successful fetch of a feed can return: the GUIDs of its
\* entries, in order
Payloads == {<<"a">>, <<"a", "a">>, <<"a", "b">>}
\* the clock, in minutes, at the instants the model tells apart
TimePoints == {0, 30}
\* the delay buttons of the moderation keyboard
DelayMinutes == {30, 120}
DefaultChannel == "@channel"
NoneValue == "None"

VARIABLES
    moderation_enabled, \* Setting "moderation_enabled": its value
    default_channel,    \* Setting "default_channel": its value
    items,              \* committed rows of table items
    nextItemId,         \* next primary key of table items
    queue,              \* committed rows of table queue, by primary key
    nextQueueId,        \* next primary key of table queue
    publishes,          \* committed rows of table publishes
    previews,           \* item ids of the moderation previews delivered to the operator
    now,                \* datetime.utcnow(), in minutes
    feeds,              \* committed rows of table feeds, by primary key
    ppc,                \* poll worker: where it is in _poll_feeds
    todo,               \* poll worker: the feeds still to poll in this cycle
    payload,            \* poll worker: the entries fetch_feed returned
    idx,                \* poll worker: position in payload
    flushed,            \* poll worker: rows of its session that are flushed and not committed
    new_items_count,    \* poll worker: new_items_count of _poll_single_feed
    cur,                \* poll worker: db_item while its preview is being sent
    broken,             \* poll worker: its session raised in a flush or commit
    dpc,                \* drain worker: where it is in _process_queue
    batch,              \* drain worker: pending_items still to process, current one first
    done,               \* drain worker: the rows of pending_items the loop has been through
    response,           \* the HTTP response fetch_feed is given, and what its body parses to
    fetched,            \* what fetch_feed returned: <<>> before the call, <<result>> after
    digest,             \* what the last _create_digest did
    aged,               \* the rows of each table that are past the retention cutoff
    purged,             \* what the last _cleanup_old_data did
    answered,           \* the answer to the last moderation callback
    delivery,           \* a preview to send: the item, and what the send and the record write do for each admin
    moderation,         \* what the last send_moderation_preview did
    item_dict,          \* poll worker: the dict of the entry normalize_item is given, and returns
    h                   \* history (not program state), see HistInit

dbVars == <<moderation_enabled, default_channel, items, nextItemId, queue, nextQueueId, publishes, previews, now, feeds>>
pollVars == <<ppc, todo, payload, idx, flushed, new_items_count, cur, broken>>
drainVars == <<dpc, batch, done>>
sideVars == <<response, item_dict, fetched, digest, aged, purged, answered, delivery, moderation>>
vars == <<dbVars, pollVars, drainVars, sideVars, h>>

\* ------------------------------------------------------------ helpers

\* _get_setting: the stored value, or None when the read raises
GetSetting(value) == {value, NoneValue}

ItemIds(rows) == {r.id : r \in rows}

\* the rows a query of worker w's session sees
Visible(w) == items \cup flushed[w]

\* the normalized title, summary and content of the entry with GUID g, as
\* character sequences; a feed serves the text of an entry whatever the
\* feed is
EntryText(g) ==
    IF g = "a"
    THEN [title |-> <<"x">>, summary |-> <<"y">>, content |-> <<"z">>]
    ELSE [title |-> <<"x">>, summary |-> <<"y">>, content |-> <<"w">>]

\* content_for_hash of normalize_item: the three fields, concatenated
ContentForHash(text) == text.title \o text.summary \o text.content

\* hash_content: SHA-256 of the text, taken to be free of collisions
HashContent(content) == <<"sha256", content>>

\* Item.content_hash of a row
ContentHash(r) == HashContent(ContentForHash(EntryText(r.guid)))

\* the lookup widened to rows with the same content hash
ExistingOrSameHash(w, f, g) ==
    \E r \in Visible(w) : \/ r.feed = f /\ r.guid = g
                          \/ ContentHash(r) = HashContent(ContentForHash(EntryText(g)))

\* db.query(Item).filter(feed_id == f, guid == g).first() is not None
\* the lookup by (feed, guid) left out
NoExistingCheck(w, f, g) == FALSE

ExistingItem(w, f, g) == \E r \in Visible(w) : r.feed = f /\ r.guid = g

QueueIds == DOMAIN queue

\* a row created already claimed
NewQueueItemProcessing(item_id, pub_type, scheduled_at, origin) ==
    [item |-> item_id, type |-> pub_type, status |-> "processing", attempts |-> 1,
     error_msg |-> NoneValue, scheduled_at |-> scheduled_at,
     by |-> origin, claims |-> 0, calls |-> 0]

\* QueueItem(item_id, type, scheduled_at, status="pending"), attempts by
\* its column default
NewQueueItem(item_id, pub_type, scheduled_at, origin) ==
    [item |-> item_id, type |-> pub_type, status |-> "pending", attempts |-> 0,
     error_msg |-> NoneValue, scheduled_at |-> scheduled_at,
     by |-> origin, claims |-> 0, calls |-> 0]

\* the insert that also sets the failed rows back to pending
EnqueuedRearm(row) ==
    [k \in DOMAIN queue \cup {nextQueueId} |->
        IF k \in DOMAIN queue
        THEN [queue[k] EXCEPT !.status = IF @ = "failed" THEN "pending" ELSE @]
        ELSE row]

\* the table queue with one more row, under the next primary key
Enqueued(row) == [k \in DOMAIN queue \cup {nextQueueId} |->
                     IF k \in DOMAIN queue THEN queue[k] ELSE row]

\* the elements of a set of numbers, ascending
SeqOfSet(S) ==
    [i \in 1..Cardinality(S) |-> CHOOSE x \in S : Cardinality({y \in S : y < x}) = i - 1]

Reverse(s) == [i \in 1..Len(s) |-> s[Len(s) + 1 - i]]

\* ------------------------------------------------------------ fetch_feed

PageUrl == "url"

\* the words fetch_feed looks for in the content-type header, as the set
\* of those the header contains: text/html, application/json,
\* application/rss+xml, application/atom+xml
ContentTypes == {{}, {"json"}, {"rss", "xml"}, {"atom", "xml"}}

\* what a parser makes of the body: it raises or reports an error
\* (ok = FALSE), or it yields n entries
ParseOutcomes == {o \in [ok : BOOLEAN, n : 0..MaxEntries] : o.ok \/ o.n = 0}

Responses == [status : {200, 404},
              raised : {NoneValue, "TimeoutError", "ClientError"},
              ctype : ContentTypes,
              url_json : BOOLEAN,
              xml : ParseOutcomes,
              json : ParseOutcomes,
              html_ok : BOOLEAN,
              regions : 0..MaxRegions]

\* a feed document with one entry
PlainFeed == [status |-> 200, raised |-> NoneValue, ctype |-> {"rss", "xml"},
              url_json |-> FALSE, xml |-> [ok |-> TRUE, n |-> 1],
              json |-> [ok |-> FALSE, n |-> 0], html_ok |-> TRUE, regions |-> 0]

FeedItem(parser, k, link) == [parser |-> parser, k |-> k, link |-> link]

Result(success, entries, error) == [success |-> success, items |-> entries, error |-> error]

Min(a, b) == IF a < b THEN a ELSE b

\* _parse_xml_feed: a bozo document or an exception is an error; otherwise
\* one item per entry of feed.entries, however many there are
ParseXmlFeed(r) ==
    IF r.xml.ok
    THEN Result(TRUE, [k \in 1..r.xml.n |-> FeedItem("xml", k, "entry")], "")
    ELSE Result(FALSE, <<>>, "Feed parsing error")

\* _parse_json_feed: likewise over data.get('items', [])
ParseJsonFeed(r) ==
    IF r.json.ok
    THEN Result(TRUE, [k \in 1..r.json.n |-> FeedItem("json", k, "entry")], "")
    ELSE Result(FALSE, <<>>, "Invalid JSON")

\* _parse_html_fallback without the [:10] slice
ParseHtmlNoLimit(r) ==
    IF ~r.html_ok THEN Result(FALSE, <<>>, "error")
    ELSE IF r.regions > 0
         THEN Result(TRUE, [k \in 1..r.regions |-> FeedItem("article", k, PageUrl)], "")
         ELSE Result(TRUE, <<FeedItem("page", 1, PageUrl)>>, "")

\* _parse_html_fallback: the first ArticleLimit article regions, or the
\* page as one entry when it has none; any exception is an error
ParseHtmlFallback(r) ==
    IF ~r.html_ok THEN Result(FALSE, <<>>, "error")
    ELSE IF r.regions > 0
         THEN Result(TRUE, [k \in 1..Min(r.regions, ArticleLimit) |-> FeedItem("article", k, PageUrl)], "")
         ELSE Result(TRUE, <<FeedItem("page", 1, PageUrl)>>, "")

\* fetch_feed
FetchFeed(r) ==
    IF r.raised = "TimeoutError" THEN Result(FALSE, <<>>, "Request timeout")
    ELSE IF r.raised # NoneValue THEN Result(FALSE, <<>>, r.raised)
    ELSE IF r.status # 200 THEN Result(FALSE, <<>>, "HTTP")
    ELSE IF "json" \in r.ctype \/ r.url_json THEN ParseJsonFeed(r)
    ELSE IF r.ctype \cap {"xml", "rss", "atom"} # {} THEN ParseXmlFeed(r)
    ELSE IF ParseXmlFeed(r).success THEN ParseXmlFeed(r)
    ELSE IF ParseJsonFeed(r).success THEN ParseJsonFeed(r)
    ELSE ParseHtmlFallback(r)

\* one call of fetch_feed on the response
FetchFeedCall ==
    /\ fetched = <<>>
    /\ fetched' = <<FetchFeed(response)>>
    /\ UNCHANGED <<dbVars, pollVars, drainVars, response, item_dict, digest, aged, delivery, moderation, purged, answered, h>>

\* ------------------------------------------------------- entry identifiers

\* the entries of a feed document, as far as the identifier goes: the id
\* of the entry ("" when it has none; feedparser gives an RSS <guid> as id)
\* and its link (url in a JSON Feed)
RawEntries == [id : {"", "a"}, link : {"", "u1", "u2"}]

Documents == {<<>>} \cup [1..1 -> RawEntries] \cup [1..2 -> RawEntries]

\* _extract_guid: the first of id, guid, link that is set, or else the
\* hash of title + link as a string
ExtractGuid(entry) ==
    IF entry.id # "" THEN entry.id
    ELSE IF entry.link # "" THEN entry.link
    ELSE "hash"

\* _parse_json_feed, line 162: guid=entry.get('id', '')
JsonGuid(entry) == entry.id

\* the GUIDs of the FeedItems the parser of response r builds
ParsedGuids(r) ==
    [k \in 1..Len(r.entries) |->
        IF "json" \in r.ctype THEN JsonGuid(r.entries[k]) ELSE ExtractGuid(r.entries[k])]

\* ----------------------------------------------------------- normalizer

\* the characters of a text, as _detect_language tells them apart:
\* [а-яё], [a-z], and everything else
Chars == {"cyrillic", "latin", "other"}

\* the normalized title + ' ' + summary of an entry, the blank left out
Texts == UNION {[1..n -> Chars] : n \in 0..MaxText}

\* the first keys of common_tags, in the order of the dict ("#novosti" and
\* "#tehnologii" stand for the tags of the two Cyrillic keys)
CommonTags == <<"#novosti", "#tehnologii", "#ai", "#telegram">>

\* the tags _generate_hashtags adds for item['lang']: '#english', and
\* "#russkiy" stands for the Cyrillic tag of 'ru'
LanguageTags == [en |-> "#english", ru |-> "#russkiy"]

\* the dict FeedItem.to_dict() builds, as far as the hashtags and the
\* language go: the categories of common_tags with a keyword in title,
\* summary or content, the tag of the domain of the link ("" for a link
\* without a domain), the text; to_dict() sets no key 'lang' or 'hashtags'
RawItems == [matched : SUBSET DOMAIN CommonTags, domain_tag : {"", "#example_com"},
             text : Texts, lang : {NoneValue}, hashtags : {NoneValue}]

NoItem == [matched |-> {}, domain_tag |-> "", text |-> <<>>, lang |-> NoneValue,
           hashtags |-> NoneValue]

\* _detect_language: more Cyrillic than Latin letters is 'ru', more Latin
\* than Cyrillic is 'en', and a tie (an empty text too) is 'ru'
DetectLanguage(text) ==
    LET cyrillic_count == Cardinality({i \in DOMAIN text : text[i] = "cyrillic"})
        latin_count == Cardinality({i \in DOMAIN text : text[i] = "latin"})
    IN IF cyrillic_count > latin_count THEN "ru"
       ELSE IF latin_count > cyrillic_count THEN "en"
       ELSE "ru"

\* _generate_hashtags: the tags of the matched categories, the domain tag,
\* the tag of item.get('lang', 'ru'), and of these the first five
GenerateHashtags(item) ==
    LET keys == SeqOfSet(item.matched)
        keyword == [k \in 1..Len(keys) |-> CommonTags[keys[k]]]
        domain == IF item.domain_tag # "" THEN <<item.domain_tag>> ELSE <<>>
        lang == IF item.lang = NoneValue THEN "ru" ELSE item.lang
        hashtags == keyword \o domain \o <<LanguageTags[lang]>>
    IN SubSeq(hashtags, 1, IF Len(hashtags) < HashtagLimit THEN Len(hashtags) ELSE HashtagLimit)

\* normalize_item: item['hashtags'] is set (line 44) before item['lang']
\* (line 50)
NormalizeItem(item) ==
    LET tagged == [item EXCEPT !.hashtags = GenerateHashtags(item)]
    IN [tagged EXCEPT !.lang = DetectLanguage(tagged.text)]

\* _poll_single_feed, line 187: the dict of the entry is normalized
PollNormalize ==
    /\ item_dict.hashtags = NoneValue
    /\ item_dict' = NormalizeItem(item_dict)
    /\ UNCHANGED <<dbVars, pollVars, drainVars, response, fetched, digest, aged, purged,
                   answered, delivery, moderation, h>>

\* ------------------------------------------------ the moderation preview

\* settings.admin_ids, in the order configured
AdminIds == [a \in 1..NumAdmins |-> a]

\* for one admin: the message is sent and the record stored ("ok"),
\* send_message raises TelegramError, send_message raises something else,
\* or the message is sent and redis.setex raises
SendOutcomes == {"ok", "TelegramError", "Exception", "RedisError"}

NoDelivery == [item |-> 0, outcome |-> [a \in 1..NumAdmins |-> "ok"]]

NoModeration == [ran |-> FALSE, attempted |-> {}, delivered |-> {}, records |-> {},
                 results |-> <<>>]

\* the loop of send_moderation_preview from the k-th admin on.  Only a
\* TelegramError is caught inside the loop (line 253); any other exception
\* leaves the loop for the handler of line 257, and the admins after it
\* are not tried.
RECURSIVE SendToAdmins(_, _, _)
SendToAdmins(d, k, acc) ==
    IF k > Len(AdminIds) THEN acc
    ELSE LET a == AdminIds[k]
             tried == [acc EXCEPT !.attempted = acc.attempted \cup {a}]
         IN IF d.outcome[a] = "ok"
            THEN SendToAdmins(d, k + 1,
                     [tried EXCEPT !.delivered = tried.delivered \cup {a},
                                   !.records = tried.records \cup
                                                  {[message |-> a, item_id |-> d.item, admin_id |-> a]},
                                   !.results = Append(tried.results, <<a, "message">>)])
            ELSE IF d.outcome[a] = "TelegramError"
            THEN SendToAdmins(d, k + 1,
                     [tried EXCEPT !.results = Append(tried.results, <<a, "Error">>)])
            ELSE IF d.outcome[a] = "RedisError"
            THEN [tried EXCEPT !.delivered = tried.delivered \cup {a}]
            ELSE tried

\* send_moderation_preview(item, admin_ids)
SendModerationPreview ==
    /\ ~moderation.ran
    /\ delivery.item # 0
    /\ moderation' = SendToAdmins(delivery, 1, [NoModeration EXCEPT !.ran = TRUE])
    /\ UNCHANGED <<dbVars, pollVars, drainVars, response, item_dict, fetched, digest, aged, purged,
                   answered, delivery, h>>

\* ------------------------------------------------------------ history
\* h records what happened, for stating the properties; no action reads it
\* to decide what the program does.
\*   polled[f]      the payload of the last poll of f that ended with every
\*                  entry of it stored (<<>> when there is none)
\*   repeat[w]      the payload w fetched equals polled[f] of its feed
\*   modOff[w]      moderation_enabled has been "false" since w's cycle began
\*   born[w]        ids of the items w's cycle created
\*   enq_failed[w]  an enqueue write of w's current feed poll failed
\*   new_queue[w]   number of queue rows w's current feed poll created
\*   late[w]        the feeds banned since w's cycle began
\*   expired        ids of the items whose previews are more than an hour
\*                  old: their moderation records have outlived the TTL
\*   flush_failed[w] the flush of an Item of w's current feed poll failed
\*   hurt[w]        w's cycle polled a feed that had no failure of its own
\*                  and left it not ingested or not marked successful
\*   outcome[f]     how the last poll attempt on f ended
HistInit == [polled |-> [f \in Feeds |-> <<>>],
             flush_failed |-> [w \in Workers |-> FALSE],
             hurt |-> [w \in Workers |-> FALSE],
             outcome |-> [f \in Feeds |-> "none"],
             repeat |-> [w \in Workers |-> FALSE],
             modOff |-> [w \in Workers |-> FALSE],
             born |-> [w \in Workers |-> {}],
             enq_failed |-> [w \in Workers |-> FALSE],
             new_queue |-> [w \in Workers |-> 0],
             late |-> [w \in Workers |-> {}],
             expired |-> {}]

\* the history of worker w's cycle, forgotten when the cycle is over
Forget(hist, w) == [hist EXCEPT !.repeat[w] = FALSE, !.modOff[w] = FALSE, !.born[w] = {},
                                !.enq_failed[w] = FALSE, !.new_queue[w] = 0,
                                !.flush_failed[w] = FALSE, !.late[w] = {}]

\* a Feed row as /addfeed creates it
NewFeed == [last_ok_at |-> {}, last_error_at |-> {}, last_error_msg |-> NoneValue,
            enabled |-> TRUE]

\* the state every initial state shares: default settings, empty tables
\* no cycle is running
InitIdle ==
    /\ ppc = [w \in Workers |-> "idle"]
    /\ todo = [w \in Workers |-> <<>>]
    /\ payload = [w \in Workers |-> <<>>]
    /\ idx = [w \in Workers |-> 0]
    /\ flushed = [w \in Workers |-> {}]
    /\ new_items_count = [w \in Workers |-> 0]
    /\ cur = [w \in Workers |-> 0]
    /\ broken = [w \in Workers |-> FALSE]
    /\ dpc = [w \in Workers |-> "idle"]
    /\ batch = [w \in Workers |-> <<>>]
    /\ done = [w \in Workers |-> {}]
    /\ h = HistInit

\* no callback has been answered
NoAnswer == [to |-> NoneValue, id |-> 0, text |-> NoneValue]

NoDigest == [ran |-> FALSE, window |-> 0, channel |-> "", calls |-> 0, log |-> NoneValue]

NoAged == [items |-> {}, queue |-> {}, publishes |-> {}]

\* no fetch, digest or cleanup has run; nothing is past retention
InitSide ==
    /\ response = PlainFeed
    /\ fetched = <<>>
    /\ digest = NoDigest
    /\ aged = NoAged
    /\ purged = NoneValue
    /\ answered = NoAnswer
    /\ delivery = NoDelivery
    /\ moderation = NoModeration
    /\ item_dict = NoItem

InitEmpty ==
    /\ moderation_enabled = "true"
    /\ default_channel = ""
    /\ items = {}
    /\ nextItemId = 1
    /\ queue = <<>>
    /\ nextQueueId = 1
    /\ publishes = {}
    /\ previews = {}
    /\ now = 0
    /\ InitIdle

\* one feed registered
Init ==
    /\ InitEmpty
    /\ feeds = [f \in {1} |-> NewFeed]
    /\ InitSide

\* every feed registered
InitFeeds ==
    /\ InitEmpty
    /\ feeds = [f \in Feeds |-> NewFeed]
    /\ InitSide

\* one feed registered, and a preview to send to the admins
InitPreview ==
    /\ InitEmpty
    /\ feeds = [f \in {1} |-> NewFeed]
    /\ response = PlainFeed
    /\ fetched = <<>>
    /\ digest = NoDigest
    /\ aged = NoAged
    /\ purged = NoneValue
    /\ answered = NoAnswer
    /\ delivery \in [item : 1..MaxItems, outcome : [1..NumAdmins -> SendOutcomes]]
    /\ moderation = NoModeration
    /\ item_dict = NoItem

\* one feed registered and any response to fetch
InitFetch ==
    /\ InitEmpty
    /\ feeds = [f \in {1} |-> NewFeed]
    /\ response \in Responses
    /\ fetched = <<>>
    /\ digest = NoDigest
    /\ aged = NoAged
    /\ purged = NoneValue
    /\ answered = NoAnswer
    /\ delivery = NoDelivery
    /\ moderation = NoModeration
    /\ item_dict = NoItem

\* ------------------------------------------------------- the poll cycle

\* the query without its filter
AllFeeds == DOMAIN feeds

\* db.query(Feed).filter(Feed.enabled == True)
EnabledFeeds == {f \in DOMAIN feeds : feeds[f].enabled}

\* _mark_feed_error, committed
MarkFeedError(f, msg) ==
    [feeds EXCEPT ![f].last_error_at = {now}, ![f].last_error_msg = msg]

\* _poll_single_feed, lines 223-227, committed
MarkFeedOk(f) ==
    [feeds EXCEPT ![f].last_ok_at = {now}, ![f].last_error_at = {},
                  ![f].last_error_msg = NoneValue]

\* every entry of payload p is a stored item of feed f
Ingested(rows, f, p) ==
    \A i \in 1..Len(p) : \E r \in rows : r.feed = f /\ r.guid = p[i]

\* _poll_feeds: a new session; the enabled feeds are queried once, then
\* polled in turn
PollStart(w) ==
    /\ ppc[w] = "idle"
    /\ EnabledFeeds # {}
    /\ ppc' = [ppc EXCEPT ![w] = "fetch"]
    /\ todo' = [todo EXCEPT ![w] = SeqOfSet(EnabledFeeds)]
    /\ broken' = [broken EXCEPT ![w] = FALSE]
    /\ h' = [h EXCEPT !.modOff[w] = (moderation_enabled = "false"),
                      !.born[w] = {},
                      !.repeat[w] = FALSE,
                      !.enq_failed[w] = FALSE,
                      !.flush_failed[w] = FALSE,
                      !.hurt[w] = FALSE,
                      !.late[w] = {},
                      !.new_queue[w] = 0]
    /\ UNCHANGED <<sideVars, dbVars, payload, idx, flushed, new_items_count, cur, drainVars>>

\* the loop of _poll_feeds moves on to the next feed, or the cycle ends
AfterFeed(w) ==
    /\ todo' = [todo EXCEPT ![w] = Tail(todo[w])]
    /\ ppc' = [ppc EXCEPT ![w] = IF Tail(todo[w]) = <<>> THEN "idle" ELSE "fetch"]
    /\ payload' = [payload EXCEPT ![w] = <<>>]
    /\ idx' = [idx EXCEPT ![w] = 0]
    /\ new_items_count' = [new_items_count EXCEPT ![w] = 0]
    /\ cur' = [cur EXCEPT ![w] = 0]

\* _poll_single_feed, fetch_feed failed: _mark_feed_error and return; the
\* commit of _mark_feed_error raises in a broken session and is swallowed
PollFetchError(w) ==
    /\ ppc[w] = "fetch"
    /\ feeds' = IF broken[w] THEN feeds ELSE MarkFeedError(Head(todo[w]), "fetch failed")
    /\ AfterFeed(w)
    /\ LET hist == [h EXCEPT !.outcome[Head(todo[w])] = "failed"]
       IN h' = IF Tail(todo[w]) = <<>> THEN Forget(hist, w) ELSE hist
    /\ UNCHANGED <<sideVars, moderation_enabled, default_channel, items, nextItemId, queue, nextQueueId,
                   publishes, previews, now, flushed, broken, drainVars>>

\* _poll_single_feed, fetch_feed returned entries
PollFetch(w) ==
    /\ ppc[w] = "fetch"
    /\ \E p \in Payloads :
        /\ payload' = [payload EXCEPT ![w] = p]
        /\ h' = [h EXCEPT !.repeat[w] = (h.polled[Head(todo[w])] = p),
                          !.enq_failed[w] = FALSE,
                          !.flush_failed[w] = FALSE,
                          !.new_queue[w] = 0]
    /\ idx' = [idx EXCEPT ![w] = 1]
    /\ new_items_count' = [new_items_count EXCEPT ![w] = 0]
    /\ ppc' = [ppc EXCEPT ![w] = "items"]
    /\ UNCHANGED <<sideVars, dbVars, todo, flushed, cur, broken, drainVars>>

\* _poll_single_feed, fetch_feed returned the entries of the document
\* of the response
PollFetchParsed(w) ==
    /\ ppc[w] = "fetch"
    /\ FetchFeed(response).success
    /\ payload' = [payload EXCEPT ![w] = ParsedGuids(response)]
    /\ h' = [h EXCEPT !.repeat[w] = (h.polled[Head(todo[w])] = ParsedGuids(response)),
                      !.enq_failed[w] = FALSE,
                      !.flush_failed[w] = FALSE,
                      !.new_queue[w] = 0]
    /\ idx' = [idx EXCEPT ![w] = 1]
    /\ new_items_count' = [new_items_count EXCEPT ![w] = 0]
    /\ ppc' = [ppc EXCEPT ![w] = "items"]
    /\ UNCHANGED <<sideVars, dbVars, todo, flushed, cur, broken, drainVars>>

\* _add_to_queue, db.commit() raised: the session's transaction is rolled
\* back, and with it every row the session had flushed
\* the entry committed on its own before the queue row is written
RolledBackKeepsItem(w, new) == items \cup flushed[w] \cup {new}

RolledBack(w, new) == items

\* _add_to_queue, db.commit() succeeded: the flushed rows become visible
Committed(w, new) == items \cup flushed[w] \cup {new}

\* the gate of _poll_single_feed (lines 207-215), on what _get_setting returned
ToModeration(setting) == setting = "true"

\* one entry of the payload: the GUID check, and for a new entry the Item
\* row (flushed), the gate, and on the auto-publish side _add_to_queue.
\* Each exception is caught by the loop (line 218) and the loop goes on.
PollItem(w) ==
    /\ ppc[w] = "items"
    /\ idx[w] <= Len(payload[w])
    /\ LET f == Head(todo[w])
           g == payload[w][idx[w]]
           new == [id |-> nextItemId, feed |-> f, guid |-> g]
       IN IF broken[w] \/ ExistingItem(w, f, g)
          THEN \* the query raises in a broken session, or finds the row
               /\ idx' = [idx EXCEPT ![w] = idx[w] + 1]
               /\ UNCHANGED <<dbVars, ppc, todo, payload, flushed, new_items_count, cur,
                              broken, h>>
          ELSE /\ nextItemId <= MaxItems
               /\ \E flush_ok \in BOOLEAN :
                    IF ~flush_ok
                    THEN \* db.flush() raises (a column the entry leaves NULL)
                         /\ broken' = [broken EXCEPT ![w] = TRUE]
                         /\ flushed' = [flushed EXCEPT ![w] = {}]
                         /\ idx' = [idx EXCEPT ![w] = idx[w] + 1]
                         /\ h' = [h EXCEPT !.flush_failed[w] = TRUE]
                         /\ UNCHANGED <<items, nextItemId, queue, nextQueueId, ppc, cur,
                                        new_items_count>>
                    ELSE /\ nextItemId' = nextItemId + 1
                         /\ \E setting \in GetSetting(moderation_enabled) :
                              IF ToModeration(setting)
                              THEN /\ flushed' = [flushed EXCEPT ![w] = flushed[w] \cup {new}]
                                   /\ cur' = [cur EXCEPT ![w] = new.id]
                                   /\ ppc' = [ppc EXCEPT ![w] = "preview"]
                                   /\ h' = [h EXCEPT !.born[w] = h.born[w] \cup {new.id}]
                                   /\ UNCHANGED <<items, queue, nextQueueId, idx, new_items_count, broken>>
                              ELSE /\ nextQueueId <= MaxQueue
                                   /\ \E ok \in BOOLEAN :
                                        IF ok
                                        THEN /\ items' = Committed(w, new)
                                             /\ queue' = Enqueued(NewQueueItem(new.id, "post", {}, "poll"))
                                             /\ nextQueueId' = nextQueueId + 1
                                             /\ h' = [h EXCEPT !.born[w] = h.born[w] \cup {new.id},
                                                               !.new_queue[w] = h.new_queue[w] + 1]
                                             /\ UNCHANGED broken
                                        ELSE /\ items' = RolledBack(w, new)
                                             /\ broken' = [broken EXCEPT ![w] = TRUE]
                                             /\ UNCHANGED <<queue, nextQueueId>>
                                             /\ h' = [h EXCEPT !.born[w] = h.born[w] \cup {new.id},
                                                               !.enq_failed[w] = TRUE]
                                   /\ flushed' = [flushed EXCEPT ![w] = {}]
                                   /\ idx' = [idx EXCEPT ![w] = idx[w] + 1]
                                   /\ new_items_count' = [new_items_count EXCEPT ![w] = new_items_count[w] + 1]
                                   /\ UNCHANGED <<ppc, cur>>
               /\ UNCHANGED <<moderation_enabled, default_channel, publishes, previews, now,
                              feeds, todo, payload>>
    /\ UNCHANGED <<sideVars, drainVars>>

\* _send_to_moderation: the preview reaches the operator or the send fails;
\* either way the entry counts as new and the loop goes on
PollPreview(w) ==
    /\ ppc[w] = "preview"
    /\ \E sent \in BOOLEAN :
         previews' = IF sent THEN previews \cup {cur[w]} ELSE previews
    /\ cur' = [cur EXCEPT ![w] = 0]
    /\ idx' = [idx EXCEPT ![w] = idx[w] + 1]
    /\ new_items_count' = [new_items_count EXCEPT ![w] = new_items_count[w] + 1]
    /\ ppc' = [ppc EXCEPT ![w] = "items"]
    /\ UNCHANGED <<sideVars, moderation_enabled, default_channel, items, nextItemId, queue, nextQueueId,
                   publishes, now, feeds, todo, payload, flushed, broken, drainVars, h>>

\* end of the payload: the feed is marked successful and the session
\* commits.  In a broken session the commit raises, _mark_feed_error is
\* called and its commit raises too: nothing is stored.
PollFinish(w) ==
    /\ ppc[w] = "items"
    /\ idx[w] > Len(payload[w])
    /\ items' = IF broken[w] THEN items ELSE items \cup flushed[w]
    /\ feeds' = IF broken[w] THEN feeds ELSE MarkFeedOk(Head(todo[w]))
    /\ flushed' = [flushed EXCEPT ![w] = {}]
    /\ LET f == Head(todo[w])
           own == h.enq_failed[w] \/ h.flush_failed[w]
           whole == Ingested(items', f, payload[w]) /\ feeds'[f].last_ok_at = {now}
           hist == [h EXCEPT !.polled[f] = IF broken[w] THEN <<>> ELSE payload[w],
                             !.outcome[f] = IF broken[w] THEN "failed" ELSE "ok",
                             !.hurt[w] = h.hurt[w] \/ (~own /\ ~whole)]
       IN h' = IF Tail(todo[w]) = <<>> THEN Forget(hist, w) ELSE hist
    /\ AfterFeed(w)
    /\ UNCHANGED <<sideVars, moderation_enabled, default_channel, nextItemId, queue, nextQueueId,
                   publishes, previews, now, broken, drainVars>>

\* the process is killed during a poll cycle: the open transaction is lost
PollCrash(w) ==
    /\ ppc[w] # "idle"
    /\ ppc' = [ppc EXCEPT ![w] = "idle"]
    /\ todo' = [todo EXCEPT ![w] = <<>>]
    /\ payload' = [payload EXCEPT ![w] = <<>>]
    /\ idx' = [idx EXCEPT ![w] = 0]
    /\ new_items_count' = [new_items_count EXCEPT ![w] = 0]
    /\ cur' = [cur EXCEPT ![w] = 0]
    /\ flushed' = [flushed EXCEPT ![w] = {}]
    /\ broken' = [broken EXCEPT ![w] = FALSE]
    /\ h' = Forget(h, w)
    /\ UNCHANGED <<sideVars, dbVars, drainVars>>

PollNext(w) ==
    \/ PollStart(w)
    \/ PollFetchError(w)
    \/ PollFetch(w)
    \/ PollItem(w)
    \/ PollPreview(w)
    \/ PollFinish(w)

\* ------------------------------------------------------ the drain cycle

\* the filter without its condition on scheduled_at
DueUnscheduled(q) == queue[q].status = "pending"

\* the filter without its test for a row that has no schedule
DueScheduledOnly(q) ==
    /\ queue[q].status = "pending"
    /\ \E t \in queue[q].scheduled_at : t <= now

\* the filter of _process_queue's query
Due(q) ==
    /\ queue[q].status = "pending"
    /\ \/ queue[q].scheduled_at = {}
       \/ \E t \in queue[q].scheduled_at : t <= now

DueItems == {q \in QueueIds : Due(q)}


\* the query without .limit(10)
BatchesNoLimit == {SeqOfSet(DueItems), Reverse(SeqOfSet(DueItems))}

\* .limit(10).all() with no ORDER BY: the first BatchLimit of the due rows
\* in the order the store scans them, by primary key upwards or downwards
Batches ==
    LET n == Min(BatchLimit, Cardinality(DueItems))
    IN {SubSeq(SeqOfSet(DueItems), 1, n), SubSeq(Reverse(SeqOfSet(DueItems)), 1, n)}

\* _process_queue: the due pending rows are read into pending_items
Select(w) ==
    /\ dpc[w] = "idle"
    /\ DueItems # {}
    /\ \E s \in Batches : batch' = [batch EXCEPT ![w] = s]
    /\ done' = [done EXCEPT ![w] = {}]
    /\ dpc' = [dpc EXCEPT ![w] = "item"]
    /\ UNCHANGED <<sideVars, dbVars, pollVars, h>>

\* the loop of _process_queue ends at the first failure
AbortCycle(w) ==
    /\ batch' = [batch EXCEPT ![w] = <<>>]
    /\ done' = [done EXCEPT ![w] = {}]
    /\ dpc' = [dpc EXCEPT ![w] = "idle"]

\* the loop of _process_queue moves on to the next row of pending_items
Advance(w) ==
    /\ batch' = [batch EXCEPT ![w] = Tail(batch[w])]
    /\ done' = [done EXCEPT ![w] = IF Tail(batch[w]) = <<>> THEN {}
                                   ELSE done[w] \cup {Head(batch[w])}]
    /\ dpc' = [dpc EXCEPT ![w] = IF Tail(batch[w]) = <<>> THEN "idle" ELSE "item"]

\* the except branch of _process_queue_item (lines 384-389)
\* a failure that leaves the row eligible for the next cycle
FailedStaysPending(row, msg) ==
    [row EXCEPT !.status = "pending", !.error_msg = msg, !.attempts = row.attempts + 1]

Failed(row, msg) ==
    [row EXCEPT !.status = "failed", !.error_msg = msg, !.attempts = row.attempts + 1]

\* "Item not found" (lines 332-337)
NotFound(row) ==
    [row EXCEPT !.status = "failed", !.error_msg = "Item not found", !.claims = row.claims + 1]

\* the story branch skipping the row without marking it
StorySkipped(row) == row

\* the story branch (lines 374-380)
StoryFailed(row) ==
    [row EXCEPT !.status = "failed", !.error_msg = "Story publication requires admin context"]

\* "Mark as processing" (lines 339-342)
Processing(row) == [row EXCEPT !.status = "processing", !.claims = row.claims + 1]

\* _process_queue_item up to the call of publish_post: the Item lookup, the
\* mark, the default channel, and the branches that end without a delivery
ProcessItem(w) ==
    /\ dpc[w] = "item"
    /\ LET q == Head(batch[w])
           row == queue[q]
       IN IF row.item \notin ItemIds(items)
          THEN /\ queue' = [queue EXCEPT ![q] = NotFound(row)]
               /\ Advance(w)
          ELSE \E channel \in GetSetting(default_channel) :
                 IF row.type = "post"
                 THEN IF channel \in {"", NoneValue}
                      THEN /\ queue' = [queue EXCEPT ![q] =
                                           Failed(Processing(row), "No default channel configured")]
                           /\ Advance(w)
                      ELSE /\ queue' = [queue EXCEPT ![q] = Processing(row)]
                           /\ dpc' = [dpc EXCEPT ![w] = "send"]
                           /\ UNCHANGED <<batch, done>>
                 ELSE /\ queue' = [queue EXCEPT ![q] = StoryFailed(Processing(row))]
                      /\ Advance(w)
    /\ UNCHANGED <<sideVars, feeds, moderation_enabled, default_channel, items, nextItemId, nextQueueId,
                   publishes, previews, now, pollVars, h>>

\* _record_publication: the Publish row, or nothing when the write raises
\* (the exception is logged and swallowed, lines 421-422)
Recorded(q, written) ==
    IF written
    THEN publishes \cup {[item |-> queue[q].item, target |-> DefaultChannel,
                          type |-> "post", by |-> q, call |-> queue[q].calls + 1]}
    ELSE publishes

\* publish_post returns: the message was sent and the publication recorded,
\* or the send raised and _process_queue_item marks the row failed
Deliver(w) ==
    /\ dpc[w] = "send"
    /\ LET q == Head(batch[w])
           row == [queue[q] EXCEPT !.calls = queue[q].calls + 1]
       IN \E sent \in BOOLEAN :
            IF sent
            THEN /\ \E written \in BOOLEAN : publishes' = Recorded(q, written)
                 /\ queue' = [queue EXCEPT ![q] = row]
                 /\ dpc' = [dpc EXCEPT ![w] = "sent"]
                 /\ UNCHANGED <<batch, done>>
            ELSE /\ queue' = [queue EXCEPT ![q] = Failed(row, "Failed to publish post")]
                 /\ Advance(w)
                 /\ UNCHANGED publishes
    /\ UNCHANGED <<sideVars, feeds, moderation_enabled, default_channel, items, nextItemId, nextQueueId,
                   previews, now, pollVars, h>>

\* success (lines 368-370, 382): the row is marked completed and committed
Complete(w) ==
    /\ dpc[w] = "sent"
    /\ queue' = [queue EXCEPT ![Head(batch[w])].status = "completed"]
    /\ Advance(w)
    /\ UNCHANGED <<sideVars, feeds, moderation_enabled, default_channel, items, nextItemId, nextQueueId,
                   publishes, previews, now, pollVars, h>>

\* the process is killed, or the job cancelled, during a drain cycle
DrainCrash(w) ==
    /\ dpc[w] # "idle"
    /\ dpc' = [dpc EXCEPT ![w] = "idle"]
    /\ batch' = [batch EXCEPT ![w] = <<>>]
    /\ done' = [done EXCEPT ![w] = {}]
    /\ UNCHANGED <<sideVars, dbVars, pollVars, h>>

DrainNext(w) ==
    \/ Select(w)
    \/ ProcessItem(w)
    \/ Deliver(w)
    \/ Complete(w)

\* ---------------------------------------------------------- the operator

\* /moderation on|off (_cmd_moderation, _set_setting)
SetModeration(value) ==
    /\ moderation_enabled # value
    /\ moderation_enabled' = value
    /\ h' = IF value = "true"
            THEN [h EXCEPT !.modOff = [w \in Workers |-> FALSE]]
            ELSE h
    /\ UNCHANGED <<sideVars, feeds, default_channel, items, nextItemId, queue, nextQueueId, publishes,
                   previews, now, pollVars, drainVars>>

\* /setchannel <channel> (_cmd_setchannel, _set_setting)
SetChannel ==
    /\ default_channel # DefaultChannel
    /\ default_channel' = DefaultChannel
    /\ UNCHANGED <<sideVars, feeds, moderation_enabled, items, nextItemId, queue, nextQueueId, publishes,
                   previews, now, pollVars, drainVars, h>>

\* a delay button of a preview: _handle_delay_publication
\* ("delayed": the answer of line 564)
DelayPublication(item_id, minutes) ==
    /\ item_id \in previews
    /\ nextQueueId <= MaxQueue
    /\ queue' = Enqueued(NewQueueItem(item_id, "post", {now + minutes}, "delay"))
    /\ nextQueueId' = nextQueueId + 1
    /\ answered' = [to |-> "delay", id |-> item_id, text |-> "delayed"]
    /\ UNCHANGED <<response, item_dict, fetched, digest, aged, delivery, moderation, purged, feeds, moderation_enabled,
                   default_channel, items, nextItemId, publishes,
                   previews, now, pollVars, drainVars, h>>

\* _get_default_channel: "For now, return None"
GetDefaultChannel == NoneValue

\* the publish button of a preview: _handle_publish_post.  The item is
\* looked up, then the default channel; without one the callback is
\* answered "no channel" (line 478) and nothing else happens.
PublishPost(item_id) ==
    /\ item_id \in previews
    /\ IF item_id \notin ItemIds(items)
       THEN /\ answered' = [to |-> "publish_post", id |-> item_id, text |-> "not found"]
            /\ UNCHANGED publishes
       ELSE IF GetDefaultChannel \in {"", NoneValue}
       THEN /\ answered' = [to |-> "publish_post", id |-> item_id, text |-> "no channel"]
            /\ UNCHANGED publishes
       ELSE \E sent \in BOOLEAN :
              IF sent
              THEN /\ answered' = [to |-> "publish_post", id |-> item_id, text |-> "published"]
                   /\ publishes' = publishes \cup
                          {[item |-> item_id, target |-> GetDefaultChannel, type |-> "post",
                            by |-> 0, call |-> 1]}
              ELSE /\ answered' = [to |-> "publish_post", id |-> item_id, text |-> "error"]
                   /\ UNCHANGED publishes
    /\ UNCHANGED <<response, item_dict, fetched, digest, aged, delivery, moderation, purged, feeds, moderation_enabled,
                   default_channel, items, nextItemId, queue, nextQueueId,
                   previews, now, pollVars, drainVars, h>>

\* the ban button of a preview of an item of feed f: _handle_ban_source
BanSource(f) ==
    /\ \E w \in Workers : \E r \in Visible(w) : r.id \in previews /\ r.feed = f
    /\ IF f \in DOMAIN feeds
       THEN /\ feeds' = [feeds EXCEPT ![f].enabled = FALSE]
            /\ answered' = [to |-> "ban_source", id |-> f, text |-> "banned"]
            /\ h' = [h EXCEPT !.late = [w \in Workers |->
                                          IF ppc[w] = "idle" THEN {} ELSE h.late[w] \cup {f}]]
       ELSE /\ answered' = [to |-> "ban_source", id |-> f, text |-> "not found"]
            /\ UNCHANGED <<feeds, h>>
    /\ UNCHANGED <<response, item_dict, fetched, digest, aged, delivery, moderation, purged, moderation_enabled,
                   default_channel, items, nextItemId, queue, nextQueueId, publishes,
                   previews, now, pollVars, drainVars>>

\* /delfeed <id>, between cycles: _cmd_delfeed deletes the Feed row, and
\* the session deletes with it the rows the relationships cascade to:
\* Feed.items, and from each item Item.queue_items and Item.publishes
DelFeed(f) ==
    /\ f \in DOMAIN feeds
    /\ \A w \in Workers : ppc[w] = "idle" /\ dpc[w] = "idle"
    /\ LET gone == ItemIds({r \in items : r.feed = f})
       IN /\ feeds' = [k \in DOMAIN feeds \ {f} |-> feeds[k]]
          /\ items' = {r \in items : r.feed # f}
          /\ queue' = [q \in {k \in DOMAIN queue : queue[k].item \notin gone} |-> queue[q]]
          /\ publishes' = {p \in publishes : p.item \notin gone}
    /\ UNCHANGED <<sideVars, moderation_enabled, default_channel, nextItemId, nextQueueId,
                   previews, now, pollVars, drainVars, h>>

\* an hour passes between cycles: every moderation record stored so far
\* has outlived its TTL of 3600 seconds (publisher.py line 247)
HourPasses ==
    /\ \A w \in Workers : ppc[w] = "idle" /\ dpc[w] = "idle"
    /\ now < 60
    /\ now' = now + 60
    /\ h' = [h EXCEPT !.expired = previews]
    /\ UNCHANGED <<sideVars, feeds, moderation_enabled, default_channel, items, nextItemId, queue,
                   nextQueueId, publishes, previews, pollVars, drainVars>>

\* time passes; a network call is over long before the clock's next instant
\* (the fetch times out after 30 seconds, ingest.py line 59)
Tick ==
    /\ \A w \in Workers : ppc[w] = "idle" /\ dpc[w] = "idle"
    /\ \E t \in TimePoints : t > now /\ now' = t
    /\ UNCHANGED <<sideVars, feeds, moderation_enabled, default_channel, items, nextItemId, queue, nextQueueId,
                   publishes, previews, pollVars, drainVars, h>>

Settings ==
    \/ \E value \in {"true", "false"} : SetModeration(value)
    \/ SetChannel

Operator ==
    \/ Settings
    \/ \E item_id \in 1..MaxItems, minutes \in DelayMinutes : DelayPublication(item_id, minutes)

\* the users an update can come from: the admins and one other user
Stranger == NumAdmins + 1

Users == {AdminIds[a] : a \in 1..NumAdmins} \cup {Stranger}

\* the check left out
CheckAdminSkipped(user) == TRUE

\* _check_admin, and the test of handle_callback_query (line 431):
\* user_id in settings.admin_ids
CheckAdmin(user) == \E a \in 1..NumAdmins : AdminIds[a] = user

\* "no rights": the answer of line 432, the reply of _cmd_*; nothing else
NoRights(to, user) ==
    /\ answered' = [to |-> to, id |-> user, text |-> "no rights"]
    /\ UNCHANGED <<dbVars, pollVars, drainVars, response, item_dict, fetched, digest, aged, purged,
                   delivery, moderation, h>>

\* handle_callback_query for a button pressed by user
HandleCallbackQuery(user) ==
    IF CheckAdmin(user)
    THEN \/ \E item_id \in 1..MaxItems, minutes \in DelayMinutes : DelayPublication(item_id, minutes)
         \/ \E item_id \in 1..MaxItems : PublishPost(item_id)
         \/ \E f \in Feeds : BanSource(f)
    ELSE NoRights("callback", user)

\* /moderation, /setchannel and /delfeed sent by user
Command(user) ==
    IF CheckAdmin(user)
    THEN \/ Settings
         \/ \E f \in Feeds : DelFeed(f)
    ELSE NoRights("command", user)

\* ---------------------------------------------------------- the digest

\* the columns table items declares
ItemColumns == {"id", "feed_id", "guid", "title", "link", "published_at", "content_hash",
                "has_media", "summary", "content", "image_url", "tags", "created_at"}

\* Item.created_at >= yesterday: every row of the store is younger than a
\* day, the clock of the model spanning minutes
DigestWindow == items

\* _create_digest.  The query is built from Item.created_at and
\* Item.word_count; naming a column the class does not declare raises
\* before the query runs, and the handler of the method logs that.
CreateDigest ==
    /\ IF "word_count" \notin ItemColumns
       THEN digest' = [ran |-> TRUE, window |-> Cardinality(DigestWindow),
                       channel |-> default_channel, calls |-> 0,
                       log |-> "Error creating digest"]
       ELSE IF DigestWindow = {}
       THEN digest' = [ran |-> TRUE, window |-> 0, channel |-> default_channel,
                       calls |-> 0, log |-> "No items for digest"]
       ELSE \E setting \in GetSetting(default_channel) :
              IF setting \in {"", NoneValue}
              THEN digest' = [ran |-> TRUE, window |-> Cardinality(DigestWindow),
                              channel |-> default_channel, calls |-> 0,
                              log |-> "No default channel for digest"]
              ELSE digest' = [ran |-> TRUE, window |-> Cardinality(DigestWindow),
                              channel |-> default_channel, calls |-> 1,
                              log |-> "Published digest"]
    /\ UNCHANGED <<dbVars, pollVars, drainVars, response, item_dict, fetched, aged, delivery, moderation, purged, answered, h>>

\* --------------------------------------------------------- the cleanup

Tables == {"items", "queue", "publishes"}

\* the Publish row of queue row 1, kept from an earlier run
OldPublish == [item |-> 1, target |-> DefaultChannel, type |-> "post", by |-> 1, call |-> 1]

\* a store that has run for a while: two items of feed 1, a queue row for
\* each (the first one published), and any choice of the rows that are
\* past the cutoffs.  A Publish row is not older than its item and its
\* queue row.
InitCleanup ==
    /\ moderation_enabled = "false"
    /\ default_channel = DefaultChannel
    /\ items = {[id |-> 1, feed |-> 1, guid |-> "a"], [id |-> 2, feed |-> 1, guid |-> "b"]}
    /\ nextItemId = 3
    /\ \E status \in {"pending", "processing", "completed", "failed"} :
         queue = <<[NewQueueItem(1, "post", {}, "poll") EXCEPT
                       !.status = "completed", !.claims = 1, !.calls = 1],
                   IF status = "pending"
                   THEN \* delayed by the operator, not yet due
                        NewQueueItem(2, "post", {150}, "delay")
                   ELSE [NewQueueItem(2, "post", {}, "poll") EXCEPT
                            !.status = status,
                            !.attempts = IF status = "failed" THEN 1 ELSE 0,
                            !.claims = 1,
                            !.calls = IF status = "completed" THEN 1 ELSE 0,
                            !.error_msg = IF status = "failed"
                                          THEN "No default channel configured"
                                          ELSE NoneValue]>>
    /\ nextQueueId = 3
    /\ publishes = {OldPublish}
    /\ previews = {}
    /\ now = 0
    /\ feeds = [f \in {1} |-> [NewFeed EXCEPT !.last_ok_at = {0}]]
    /\ InitIdle
    /\ response = PlainFeed
    /\ fetched = <<>>
    /\ digest = NoDigest
    /\ aged \in [items : SUBSET {1, 2}, queue : SUBSET {1, 2}, publishes : SUBSET {OldPublish}]
    /\ OldPublish \in aged.publishes => 1 \in aged.items /\ 1 \in aged.queue
    /\ purged = NoneValue
    /\ answered = NoAnswer
    /\ delivery = NoDelivery
    /\ moderation = NoModeration
    /\ item_dict = NoItem

\* db.delete(item) for the old items, with the cascade of Item.queue_items
\* and Item.publishes
PurgedItems == {r \in items : r.id \notin aged.items}

\* db.delete(queue_item) for the old completed or failed rows
PurgedQueue ==
    LET gone == {q \in DOMAIN queue :
                    \/ queue[q].item \in aged.items
                    \/ q \in aged.queue /\ queue[q].status \in {"completed", "failed"}}
    IN [q \in DOMAIN queue \ gone |-> queue[q]]

\* db.delete(publish) for the old publications
PurgedPublishes == {p \in publishes : p \notin aged.publishes /\ p.item \notin aged.items}

\* _cleanup_old_data: the three queries and their deletes run in one
\* session and are committed once, at the end; an exception anywhere
\* (fault names the table being purged when it is raised) goes to the
\* handler of the method, which logs it, and the session is dropped
Cleanup(fault) ==
    /\ purged = NoneValue
    /\ IF fault = NoneValue
       THEN /\ items' = PurgedItems
            /\ queue' = PurgedQueue
            /\ publishes' = PurgedPublishes
            /\ purged' = "cleaned"
       ELSE /\ UNCHANGED <<items, queue, publishes>>
            /\ purged' = fault
    /\ UNCHANGED <<moderation_enabled, default_channel, nextItemId, nextQueueId, previews, now,
                   feeds, pollVars, drainVars, response, item_dict, fetched, digest, aged, delivery, moderation, answered, h>>

\* ---------------------------------------------------------- a backlog

\* GUIDs of the entries of a long feed
EntryGuids == <<"a", "b", "c", "d", "e", "f", "g", "h", "i", "j", "k", "l", "m", "n">>

\* auto-publish mode before any /setchannel: one poll has stored n new
\* entries of feed 1 and enqueued each of them
InitBatch ==
    /\ moderation_enabled = "false"
    /\ default_channel = ""
    /\ \E n \in 0..MaxDue :
         /\ items = {[id |-> i, feed |-> 1, guid |-> EntryGuids[i]] : i \in 1..n}
         /\ nextItemId = n + 1
         /\ queue = [q \in 1..n |-> NewQueueItem(q, "post", {}, "poll")]
         /\ nextQueueId = n + 1
    /\ publishes = {}
    /\ previews = {}
    /\ now = 0
    /\ feeds = [f \in {1} |-> [NewFeed EXCEPT !.last_ok_at = {0}]]
    /\ InitIdle
    /\ InitSide

\* ------------------------------------------------------- specifications

\* one process: APScheduler runs one instance of each job at a time
Next ==
    \/ PollNext(1)
    \/ DrainNext(1)
    \/ PollCrash(1)
    \/ DrainCrash(1)
    \/ Operator
    \/ Tick

Spec == Init /\ [][Next]_vars

\* the drain job keeps firing and every call it makes returns
FairSpec == Spec /\ WF_vars(DrainNext(1))

\* several processes on one store: drain cycles in overlapping windows
NextDrainOverlap ==
    \/ PollNext(1)
    \/ \E w \in Workers : DrainNext(w)
    \/ Settings

SpecDrainOverlap == Init /\ [][NextDrainOverlap]_vars

\* several processes on one store: poll cycles in overlapping windows
NextPollOverlap ==
    \/ \E w \in Workers : PollNext(w)
    \/ DrainNext(1)
    \/ Settings

SpecPollOverlap == Init /\ [][NextPollOverlap]_vars

\* one process, several feeds: the poll cycle, the settings and the clock
NextFeeds ==
    \/ PollNext(1)
    \/ Settings
    \/ Tick

SpecFeeds == InitFeeds /\ [][NextFeeds]_vars

\* fetch_feed on any response
NextFetch ==
    FetchFeedCall

SpecFetch == InitFetch /\ [][NextFetch]_vars

\* one poll cycle at a time, the operator and the digest job
NextDigest ==
    \/ PollNext(1)
    \/ Settings
    \/ CreateDigest

SpecDigest == Init /\ [][NextDigest]_vars

\* the cleanup job on a store that has run for a while
NextCleanup ==
    \E fault \in Tables \cup {NoneValue} : Cleanup(fault)

SpecCleanup == InitCleanup /\ [][NextCleanup]_vars

\* drain cycles on a backlog, no default channel stored
NextBatch ==
    \/ Select(1)
    \/ ProcessItem(1)

SpecBatch == InitBatch /\ [][NextBatch]_vars

\* send_moderation_preview on any outcome of the sends
NextPreview ==
    SendModerationPreview

SpecPreview == InitPreview /\ [][NextPreview]_vars

\* one poll cycle at a time, under moderation, with the buttons of the
\* previews
NextModeration ==
    \/ PollNext(1)
    \/ SetChannel
    \/ \E item_id \in 1..MaxItems, minutes \in DelayMinutes : DelayPublication(item_id, minutes)
    \/ \E item_id \in 1..MaxItems : PublishPost(item_id)
    \/ \E f \in Feeds : BanSource(f)
    \/ HourPasses

SpecModeration == Init /\ [][NextModeration]_vars

\* one poll cycle and one drain cycle at a time, and the operator's
\* commands, /delfeed among them
NextDelFeed ==
    \/ PollNext(1)
    \/ DrainNext(1)
    \/ Settings
    \/ \E f \in Feeds : DelFeed(f)

SpecDelFeed == Init /\ [][NextDelFeed]_vars

\* every feed registered, one poll cycle at a time, and the ban button
NextBan ==
    \/ PollNext(1)
    \/ \E value \in {"true", "false"} : SetModeration(value)
    \/ \E f \in Feeds : BanSource(f)

SpecBan == InitFeeds /\ [][NextBan]_vars

\* moderation mode: one poll has stored n entries of feed 1 and sent a
\* preview of each; at time 0 the operator pressed a delay button of each
\* preview; the clock has since passed the longest delay
InitDelayed ==
    /\ moderation_enabled = "true"
    /\ default_channel = ""
    /\ \E n \in 0..MaxDue :
         /\ items = {[id |-> i, feed |-> 1, guid |-> EntryGuids[i]] : i \in 1..n}
         /\ nextItemId = n + 1
         /\ \E minutes \in [1..n -> DelayMinutes] :
              queue = [q \in 1..n |-> NewQueueItem(q, "post", {minutes[q]}, "delay")]
         /\ nextQueueId = n + 1
         /\ previews = 1..n
    /\ publishes = {}
    /\ now = 120
    /\ feeds = [f \in {1} |-> [NewFeed EXCEPT !.last_ok_at = {0}]]
    /\ InitIdle
    /\ InitSide

\* drain cycles on a backlog of delayed rows that have come due
SpecDelayed == InitDelayed /\ [][NextBatch]_vars

\* a store whose queue holds rows of type story: the column allows the
\* type (database.py line 81) and _process_queue_item has a branch for it,
\* while no code of the program writes such a row.  Two items of feed 1
\* are stored, with a queue row each, of either type, due now or at 30.
InitStory ==
    /\ moderation_enabled = "false"
    /\ default_channel \in {"", DefaultChannel}
    /\ items = {[id |-> 1, feed |-> 1, guid |-> "a"], [id |-> 2, feed |-> 1, guid |-> "b"]}
    /\ nextItemId = 3
    /\ \E type \in [1..2 -> {"post", "story"}], at \in [1..2 -> {{}, {30}}] :
         queue = [q \in 1..2 |-> NewQueueItem(q, type[q], at[q],
                                              IF type[q] = "story" THEN "other" ELSE "poll")]
    /\ nextQueueId = 3
    /\ publishes = {}
    /\ previews = {}
    /\ now = 0
    /\ feeds = [f \in {1} |-> [NewFeed EXCEPT !.last_ok_at = {0}]]
    /\ InitIdle
    /\ InitSide

\* one drain cycle at a time, the channel setting and the clock
NextStory ==
    \/ DrainNext(1)
    \/ SetChannel
    \/ Tick

SpecStory == InitStory /\ [][NextStory]_vars

\* one feed registered and /setchannel done
InitChannel ==
    /\ moderation_enabled = "true"
    /\ default_channel = DefaultChannel
    /\ items = {}
    /\ nextItemId = 1
    /\ queue = <<>>
    /\ nextQueueId = 1
    /\ publishes = {}
    /\ previews = {}
    /\ now = 0
    /\ InitIdle
    /\ feeds = [f \in {1} |-> NewFeed]
    /\ InitSide

\* every writer of the store but the cleanup: one poll cycle and one drain
\* cycle at a time, the buttons of the previews, /delfeed and the digest
NextOwners ==
    \/ PollNext(1)
    \/ DrainNext(1)
    \/ \E item_id \in 1..MaxItems, minutes \in DelayMinutes : DelayPublication(item_id, minutes)
    \/ \E item_id \in 1..MaxItems : PublishPost(item_id)
    \/ \E f \in Feeds : BanSource(f)
    \/ \E f \in Feeds : DelFeed(f)
    \/ CreateDigest

SpecOwners == InitChannel /\ [][NextOwners]_vars

\* auto-publish mode: one poll has stored n new entries of feed 1 and
\* enqueued each of them; a backlog of more than MaxQueue rows is drained
\* with no default channel stored, a shorter one with or without
InitBacklog ==
    /\ moderation_enabled = "false"
    /\ \E n \in 0..MaxDue :
         /\ items = {[id |-> i, feed |-> 1, guid |-> EntryGuids[i]] : i \in 1..n}
         /\ nextItemId = n + 1
         /\ queue = [q \in 1..n |-> NewQueueItem(q, "post", {}, "poll")]
         /\ nextQueueId = n + 1
         /\ default_channel \in IF n <= MaxQueue THEN {"", DefaultChannel} ELSE {""}
    /\ publishes = {}
    /\ previews = {}
    /\ now = 0
    /\ feeds = [f \in {1} |-> [NewFeed EXCEPT !.last_ok_at = {0}]]
    /\ InitIdle
    /\ InitSide

NextBacklog ==
    DrainNext(1)

\* the drain job fires every minute (_add_queue_processing_job), every call
\* it makes returns, and the process is not stopped
FairBacklog == InitBacklog /\ [][NextBacklog]_vars /\ WF_vars(DrainNext(1))

\* one feed registered in a store without the default settings:
\* _initialize_database logs a failure of its commit and the bot starts
\* all the same, so no Setting row exists until a command writes one
InitAbsent ==
    /\ moderation_enabled = NoneValue
    /\ default_channel = NoneValue
    /\ items = {}
    /\ nextItemId = 1
    /\ queue = <<>>
    /\ nextQueueId = 1
    /\ publishes = {}
    /\ previews = {}
    /\ now = 0
    /\ InitIdle
    /\ feeds = [f \in {1} |-> NewFeed]
    /\ InitSide

\* one poll cycle at a time and the settings commands
NextAbsent ==
    \/ PollNext(1)
    \/ Settings

SpecAbsent == InitAbsent /\ [][NextAbsent]_vars

\* one poll cycle at a time, and callbacks and commands from any user
NextUsers ==
    \/ PollNext(1)
    \/ \E user \in Users : HandleCallbackQuery(user)
    \/ \E user \in Users : Command(user)

SpecUsers == Init /\ [][NextUsers]_vars

\* one feed registered, whose URL serves a JSON Feed or an RSS document
\* of up to two entries
InitParsed ==
    /\ InitEmpty
    /\ feeds = [f \in {1} |-> NewFeed]
    /\ \E doc \in Documents, ctype \in {{"json"}, {"rss", "xml"}} :
         response = [status |-> 200, raised |-> NoneValue, ctype |-> ctype,
                     url_json |-> FALSE,
                     xml |-> [ok |-> TRUE, n |-> Len(doc)],
                     json |-> [ok |-> TRUE, n |-> Len(doc)],
                     html_ok |-> TRUE, regions |-> 0, entries |-> doc]
    /\ fetched = <<>>
    /\ digest = NoDigest
    /\ aged = NoAged
    /\ purged = NoneValue
    /\ answered = NoAnswer
    /\ delivery = NoDelivery
    /\ moderation = NoModeration
    /\ item_dict = NoItem

\* poll cycles of that feed
NextParsed ==
    \/ PollStart(1)
    \/ PollFetchParsed(1)
    \/ PollItem(1)
    \/ PollPreview(1)
    \/ PollFinish(1)

SpecParsed == InitParsed /\ [][NextParsed]_vars

\* an entry fresh from the parser, about to be normalized
InitNormalize ==
    /\ InitEmpty
    /\ feeds = [f \in {1} |-> NewFeed]
    /\ response = PlainFeed
    /\ item_dict \in RawItems
    /\ fetched = <<>>
    /\ digest = NoDigest
    /\ aged = NoAged
    /\ purged = NoneValue
    /\ answered = NoAnswer
    /\ delivery = NoDelivery
    /\ moderation = NoModeration

SpecNormalize == InitNormalize /\ [][PollNormalize]_vars

\* ------------------------------------------------------------ properties

Range(s) == {s[i] : i \in DOMAIN s}

QueueOf(item_id) == {q \in QueueIds : queue[q].item = item_id}

\* C1: under overlapping drain cycles a queue entry is claimed and processed
\* by at most one of them, and its delivery call is issued at most once.
C1_ClaimedOnce ==
    \A q \in QueueIds : queue[q].claims <= 1 /\ queue[q].calls <= 1

\* C2: while moderation_enabled is "true", no step of a poll cycle creates a
\* queue entry.
C2_NoEnqueueUnderModeration ==
    [][moderation_enabled = "true" =>
          \A q \in DOMAIN queue' \ DOMAIN queue : queue'[q].by # "poll"]_vars

C4_RepollCreatesNothing ==
    \A w \in Workers :
        h.repeat[w] =>
            /\ new_items_count[w] = 0
            /\ h.new_queue[w] = 0
            /\ flushed[w] = {}
            /\ ppc[w] # "preview"

\* the second poll of a payload that repeats a GUID has gone through it
C4_Witness ==
    \E w \in Workers :
        /\ h.repeat[w]
        /\ payload[w] = <<"a", "a">>
        /\ ppc[w] = "items" /\ idx[w] > Len(payload[w])

\* C5: under overlapping poll cycles no two persisted entries share
\* (feed, GUID).
C5_UniqueFeedGuid ==
    \A r1, r2 \in items : (r1.feed = r2.feed /\ r1.guid = r2.guid) => r1.id = r2.id

\* C6: the attempt count and the number of delivery calls of a queue entry
\* never exceed retry_attempts; an entry at the ceiling is failed, and a
\* failed entry is in no drain cycle's batch.
C6_AttemptsWithinCeiling ==
    \A q \in QueueIds :
        /\ queue[q].attempts <= RetryAttempts
        /\ queue[q].calls <= RetryAttempts
        /\ (queue[q].attempts >= RetryAttempts => queue[q].status = "failed")
        /\ (queue[q].status = "failed" => \A w \in Workers : q \notin Range(batch[w]))

\* an entry has failed, and a drain cycle is processing another entry
C6_Witness ==
    \E q \in QueueIds, w \in Workers :
        /\ queue[q].status = "failed" /\ queue[q].attempts >= 1
        /\ dpc[w] = "item"
        /\ q \notin Range(batch[w])
        /\ queue[Head(batch[w])].status = "pending"

\* C7: a failed queue entry whose attempt count is below retry_attempts can
\* be re-armed: some step of the program sets it back to pending.
C7_FailedRearmable ==
    \A q \in QueueIds :
        (queue[q].status = "failed" /\ queue[q].attempts < RetryAttempts) =>
            ENABLED (Next /\ queue'[q].status = "pending")

\* C8: every step that moves a queue entry into failed increases its attempt
\* count and records an error; the attempt count changes in no other step
\* and never decreases.
C8_FailedCountsAttempt ==
    [][\A q \in DOMAIN queue :
          /\ (queue[q].status # "failed" /\ queue'[q].status = "failed") =>
                 /\ queue'[q].attempts > queue[q].attempts
                 /\ queue'[q].error_msg # NoneValue
          /\ queue'[q].attempts >= queue[q].attempts
          /\ (queue'[q].attempts # queue[q].attempts) =>
                 (queue[q].status # "failed" /\ queue'[q].status = "failed")]_vars

\* a queue entry no drain cycle is working on
Settled(q) == \A w \in Workers : q \notin Range(batch[w])

\* C9: a queue entry is completed exactly when a publication record written
\* by its delivery exists: once no cycle is working on the entry, there is no
\* completed entry without its record and no recorded delivery whose entry
\* is failed or still processing.
C9_CompletedIffRecorded ==
    \A q \in QueueIds :
        Settled(q) =>
            ((queue[q].status = "completed") <=>
                 (\E r \in publishes : r.by = q /\ r.item = queue[q].item))

\* C10: no queue entry stays in processing forever.
C10_ProcessingSettles ==
    \A q \in 1..MaxQueue :
        (q \in QueueIds /\ queue[q].status = "processing")
            ~> (q \in QueueIds /\ queue[q].status \in {"completed", "failed"})

\* C11: a delay decision delivered twice for the same entry (same delay,
\* same instant) leaves at most one queue entry for it.
C11_DecisionOnce ==
    \A q1, q2 \in QueueIds :
        (/\ queue[q1].by = "delay" /\ queue[q2].by = "delay"
         /\ queue[q1].item = queue[q2].item
         /\ queue[q1].scheduled_at = queue[q2].scheduled_at) => q1 = q2

\* C12: within one poll cycle, a feed that has no failure of its own is
\* ingested and marked successful, whatever failed on the other feeds of
\* the cycle.
C12_FeedIsolation ==
    \A w \in Workers : ~h.hurt[w]

\* C13: a step that moves a batch entry to failed records an error on it,
\* changes no other queue entry, and leaves the rest of the batch to be
\* processed in the same cycle.
C13_EntryIsolation ==
    [][\A q \in DOMAIN queue :
          (queue[q].status # "failed" /\ queue'[q].status = "failed") =>
              /\ queue'[q].error_msg # NoneValue
              /\ \A r \in DOMAIN queue \ {q} : queue'[r] = queue[r]
              /\ \A w \in Workers :
                     (batch[w] # <<>> /\ Head(batch[w]) = q) =>
                         /\ batch'[w] = Tail(batch[w])
                         /\ dpc'[w] = IF Tail(batch[w]) = <<>> THEN "idle" ELSE "item"]_vars

\* an entry of the batch has failed and the cycle has delivered the next one
C13_Witness ==
    \E w \in Workers :
        /\ dpc[w] = "sent"
        /\ \E q \in done[w] : queue[q].status = "failed" /\ queue[q].error_msg # NoneValue

\* C14: after a poll attempt on a feed that succeeded, last_ok_at is set and
\* the error fields are cleared; after one that failed, the error fields are
\* set; the enabled flag is never changed by polling.
C14_FeedStatus ==
    \A f \in DOMAIN feeds :
        /\ feeds[f].enabled
        /\ h.outcome[f] = "ok" =>
               /\ feeds[f].last_ok_at # {}
               /\ feeds[f].last_error_at = {}
               /\ feeds[f].last_error_msg = NoneValue
        /\ h.outcome[f] = "failed" =>
               /\ feeds[f].last_error_at # {}
               /\ feeds[f].last_error_msg # NoneValue

\* C15: fetch_feed never returns success with an empty sequence of
\* entries, and when the content type selects no parser the result is that
\* of the first of XML, JSON, HTML fallback that neither errors nor comes
\* back empty.
C15_NeverEmptySuccess ==
    \A i \in 1..Len(fetched) :
        /\ fetched[i].success => Len(fetched[i].items) > 0
        /\ (/\ response.raised = NoneValue /\ response.status = 200
            /\ response.ctype = {} /\ ~response.url_json) =>
              IF response.xml.ok /\ response.xml.n > 0
              THEN fetched[i] = ParseXmlFeed(response)
              ELSE IF response.json.ok /\ response.json.n > 0
              THEN fetched[i] = ParseJsonFeed(response)
              ELSE fetched[i] = ParseHtmlFallback(response)

\* C16: when fetch_feed goes through the HTML fallback and the page can be
\* read, a page with no article region gives exactly one entry, whose link
\* is the page URL; a page with article regions gives one entry per region
\* up to 10, never more, each with the page URL as its link.
C16_HtmlFallback ==
    \A i \in 1..Len(fetched) :
        (/\ response.raised = NoneValue /\ response.status = 200
         /\ response.ctype = {} /\ ~response.url_json
         /\ ~response.xml.ok /\ ~response.json.ok /\ response.html_ok) =>
          LET e == fetched[i].items
          IN /\ fetched[i].success
             /\ \A k \in 1..Len(e) : e[k].link = PageUrl
             /\ response.regions = 0 => Len(e) = 1 /\ e[1].parser = "page"
             /\ response.regions > 0 =>
                   /\ Len(e) <= 10
                   /\ response.regions <= 10 => Len(e) = response.regions
                   /\ response.regions > 10 => Len(e) = 10
                   /\ \A k \in 1..Len(e) : e[k].parser = "article" /\ e[k].k = k

C16_Witness ==
    /\ fetched # <<>>
    /\ response.raised = NoneValue /\ response.status = 200
    /\ response.ctype = {} /\ ~response.url_json
    /\ ~response.xml.ok /\ ~response.json.ok /\ response.html_ok
    /\ response.regions = 0
    /\ Len(fetched[1].items) = 1 /\ fetched[1].items[1].link = PageUrl

\* C17: rows with the same normalized title+summary+content have the same
\* content hash, whatever their feeds, and a row with the same content
\* hash in another feed keeps no entry out: every entry of a feed's last
\* successful poll is stored under that feed.
C17_FingerprintNoBlock ==
    /\ \A r1, r2 \in items :
          ContentForHash(EntryText(r1.guid)) = ContentForHash(EntryText(r2.guid))
              => ContentHash(r1) = ContentHash(r2)
    /\ \A f \in DOMAIN feeds : h.outcome[f] = "ok" => Ingested(items, f, h.polled[f])

C17_Witness ==
    \E r1, r2 \in items :
        /\ r1.feed # r2.feed
        /\ ContentHash(r1) = ContentHash(r2)
        /\ h.outcome[r1.feed] = "ok" /\ h.outcome[r2.feed] = "ok"

\* C18: a digest cycle that finds no item of the last 24 hours makes no
\* delivery call and ends without an error.
C18_EmptyDigestQuiet ==
    (digest.ran /\ digest.window = 0) =>
        digest.calls = 0 /\ digest.log = "No items for digest"

\* C19: a digest cycle that finds at least one item of the last 24 hours,
\* with a default channel set, makes exactly one delivery call.
C19_DigestDelivered ==
    (digest.ran /\ digest.window > 0 /\ digest.channel = DefaultChannel) =>
        digest.calls = 1

\* C20: when a cleanup cycle fails while purging one table, the old rows
\* of the other two tables are deleted all the same.
C20_PurgeIndependent ==
    \A t \in Tables : purged = t =>
        /\ t # "items" => aged.items \cap ItemIds(items) = {}
        /\ t # "queue" => \A q \in aged.queue \cap DOMAIN queue :
                              queue[q].status \notin {"completed", "failed"}
        /\ t # "publishes" => aged.publishes \cap publishes = {}

\* C21: a cleanup cycle removes a queue row only if the row is completed
\* or failed and older than 7 days; a pending or processing row stays,
\* also when its item is older than 30 days.
C21_OnlyTerminalPurged ==
    [][\A q \in DOMAIN queue :
          q \notin DOMAIN queue' =>
              queue[q].status \in {"completed", "failed"} /\ q \in aged.queue]_vars

\* C22: a Publish row, once stored, is neither changed nor deleted by the
\* poll, the drain or an operator command such as /delfeed.
C22_PublishesKept == [][publishes \subseteq publishes']_vars

\* C23: a decision on a preview more than an hour old (its moderation
\* record has expired) creates no queue row, delivers nothing and changes
\* no feed.
C23_ExpiredDecisionInert ==
    [][(/\ answered' # answered
        /\ \/ answered'.to \in {"delay", "publish_post"} /\ answered'.id \in h.expired
           \/ answered'.to = "ban_source" /\ previews # {} /\ previews \subseteq h.expired)
       => queue' = queue /\ publishes' = publishes /\ feeds' = feeds]_vars

\* C24: with a default channel stored, the publish button of a preview of
\* an existing item gets the item enqueued (pending, unscheduled) or
\* delivered; the answer is not that there is no channel.
C24_PublishNowAccepted ==
    [][(/\ answered' # answered
        /\ answered'.to = "publish_post"
        /\ answered'.id \in ItemIds(items)
        /\ default_channel = DefaultChannel)
       => /\ answered'.text # "no channel"
          /\ \/ \E q \in DOMAIN queue' \ DOMAIN queue :
                   /\ queue'[q].item = answered'.id
                   /\ queue'[q].status = "pending"
                   /\ queue'[q].scheduled_at = {}
             \/ \E p \in publishes' \ publishes : p.item = answered'.id]_vars

\* C25: the ban button sets enabled of its feed to false and changes
\* nothing else in the store; no step sets enabled back; a poll cycle
\* fetches a feed only if the feed is enabled or was banned after the
\* cycle began.
C25_BanSource ==
    /\ [](\A w \in Workers :
            (ppc[w] = "fetch" /\ todo[w] # <<>>) =>
                \/ feeds[Head(todo[w])].enabled
                \/ Head(todo[w]) \in h.late[w])
    /\ [][\A f \in DOMAIN feeds :
            /\ (answered' # answered /\ answered' = [to |-> "ban_source", id |-> f, text |-> "banned"])
                   => ~feeds'[f].enabled
            /\ (feeds[f].enabled /\ ~feeds'[f].enabled) =>
                   /\ feeds' = [feeds EXCEPT ![f].enabled = FALSE]
                   /\ queue' = queue /\ items' = items /\ publishes' = publishes
            /\ ~feeds[f].enabled => ~feeds'[f].enabled]_vars

\* a feed is banned and a cycle begun afterwards is fetching the other one
C25_Witness ==
    \E w \in Workers, f \in DOMAIN feeds :
        /\ ~feeds[f].enabled
        /\ answered = [to |-> "ban_source", id |-> f, text |-> "banned"]
        /\ ppc[w] = "fetch" /\ todo[w] # <<>> /\ h.late[w] = {}
        /\ \A i \in 1..Len(todo[w]) : todo[w][i] # f

\* C26: send_moderation_preview attempts a send for every configured
\* admin, whatever the send or the record write did for another admin,
\* and every delivered preview has a moderation record for its item.
C26_EveryAdminTried ==
    moderation.ran =>
        /\ moderation.attempted = Range(AdminIds)
        /\ \A a \in moderation.delivered :
              \E r \in moderation.records : r.admin_id = a /\ r.item_id = delivery.item

\* C27: the status of a queue row changes only from pending to
\* processing and from processing to completed or failed.  (A step of
\* ProcessItem that marks the row processing and then fails it, for want
\* of a channel or for a story, goes through processing.)
C27_StatusTransitions ==
    [][\A q \in DOMAIN queue \cap DOMAIN queue' :
          queue'[q].status # queue[q].status =>
              \/ queue[q].status = "pending" /\ queue'[q].status = "processing"
              \/ queue[q].status = "processing" /\ queue'[q].status \in {"completed", "failed"}
              \/ /\ queue[q].status = "pending" /\ queue'[q].status = "failed"
                 /\ queue'[q].error_msg \in {"No default channel configured",
                                             "Story publication requires admin context"}]_vars

\* C28: a queue row, whether the poll or a delay decision creates it, is
\* created pending with no attempt counted.
C28_CreatedPending ==
    [][\A q \in DOMAIN queue' \ DOMAIN queue :
          queue'[q].status = "pending" /\ queue'[q].attempts = 0]_vars

\* a row the poll created and a row a delay decision created
C28_Witness ==
    \E q1, q2 \in DOMAIN queue : queue[q1].by = "poll" /\ queue[q2].by = "delay"

\* C29: a delay decision creates a pending row scheduled N minutes from
\* now, and the drain claims a row only if the row has no schedule or its
\* schedule is not later than the time of the drain.
C29_NotBeforeSchedule ==
    [][/\ \A q \in DOMAIN queue' \ DOMAIN queue :
            queue'[q].by = "delay" =>
                /\ queue'[q].status = "pending"
                /\ \E minutes \in DelayMinutes : queue'[q].scheduled_at = {now + minutes}
       /\ \A q \in DOMAIN queue \cap DOMAIN queue' :
            queue'[q].claims > queue[q].claims =>
                \/ queue[q].scheduled_at = {}
                \/ \E t \in queue[q].scheduled_at : t <= now]_vars

\* a delayed row has been claimed, at or after its schedule
C29_Witness ==
    \E q \in DOMAIN queue :
        /\ queue[q].by = "delay" /\ queue[q].status = "processing"
        /\ \E t \in queue[q].scheduled_at : t > 0 /\ t <= now

\* C30: a drain cycle takes at most 10 rows, however many are due.
C30_BatchBounded ==
    \A w \in Workers :
        /\ Len(batch[w]) + Cardinality(done[w]) <= 10
        /\ \A i, j \in 1..Len(batch[w]) : i # j => batch[w][i] # batch[w][j]

\* more than 10 rows are due and the cycle has taken 10 of them
C30_Witness ==
    /\ dpc[1] = "item"
    /\ Cardinality(DueItems) > 10
    /\ Len(batch[1]) = 10

\* row r has been due for longer than row q: its schedule is earlier, or
\* neither has a schedule and r was created first (keys grow with time)
DueBefore(r, q) ==
    \/ \E tr \in queue[r].scheduled_at, tq \in queue[q].scheduled_at : tr < tq
    \/ queue[r].scheduled_at = {} /\ queue[q].scheduled_at = {} /\ r < q

\* C31: when a drain cycle selects its batch, no due pending row is left
\* out while a row that has been due for a shorter time is selected.
C31_OldestDueFirst ==
    [][\A w \in Workers :
          (dpc[w] = "idle" /\ dpc'[w] = "item") =>
              \A q \in Range(batch'[w]) :
                  \A r \in DueItems \ Range(batch'[w]) : ~DueBefore(r, q)]_vars

\* C32: a queue row of type story that the drain loop goes through is
\* failed with an error message in that step of the cycle; no delivery call
\* is ever issued for it; once failed it is in no later batch and is not
\* changed again.
C32_StoryFailsOnce ==
    [][\A q \in DOMAIN queue :
          queue[q].type = "story" =>
              /\ \A w \in Workers :
                    (dpc[w] = "item" /\ Head(batch[w]) = q /\ batch'[w] # batch[w]) =>
                        /\ queue'[q].status = "failed"
                        /\ queue'[q].error_msg # NoneValue
              /\ queue'[q].calls = 0
              /\ \A w \in Workers : dpc'[w] \in {"send", "sent"} => Head(batch'[w]) # q
              /\ queue[q].status = "failed" =>
                    /\ queue'[q] = queue[q]
                    /\ \A w \in Workers : q \notin Range(batch'[w])]_vars

\* a story row has been failed by one cycle, and a later cycle is going
\* through the other row
C32_Witness ==
    \E q \in DOMAIN queue :
        /\ queue[q].type = "story" /\ queue[q].status = "failed"
        /\ queue[q].error_msg = "Story publication requires admin context"
        /\ queue[q].claims = 1 /\ queue[q].calls = 0
        /\ dpc[1] = "item" /\ q \notin Range(batch[1]) /\ done[1] = {}

\* C33: a queue row that exists before and after a step is changed, in its
\* status or anything else, only by the drain cycle working on it; the
\* poll, the buttons of a preview, /delfeed and the digest create rows or
\* leave them as they are.  Item rows are created only by a poll cycle.
C33_Ownership ==
    [][/\ \A q \in DOMAIN queue \cap DOMAIN queue' :
             queue'[q] # queue[q] =>
                 \E w \in Workers : dpc[w] \in {"item", "send", "sent"} /\ Head(batch[w]) = q
       /\ \A q \in DOMAIN queue' \ DOMAIN queue : queue'[q].by \in {"poll", "delay"}
       /\ ItemIds(items') \ ItemIds(items) # {} =>
             \E w \in Workers : ppc[w] = "items" /\ ppc'[w] \in {"items", "fetch", "idle"}]_vars

\* the drain has settled a row the poll created, a delay decision has
\* created another row, and the digest has run
C33_Witness ==
    /\ digest.ran
    /\ \E q1, q2 \in DOMAIN queue :
          /\ queue[q1].by = "poll" /\ queue[q1].status \in {"completed", "failed"}
          /\ queue[q2].by = "delay" /\ queue[q2].status = "pending"

C35_CompletedIsFinal ==
    [][/\ \A q \in DOMAIN queue \cap DOMAIN queue' :
             queue[q].status = "completed" => queue'[q].status = "completed"
       /\ \A q \in DOMAIN queue' : queue'[q].claims <= 1 => queue'[q].calls <= 1]_vars

\* C36: the poll creates a queue row for a new entry only when the setting
\* moderation_enabled is stored and its value is not "true"; with the
\* setting absent, or unreadable, ingestion creates no queue row.
C36_GateFailsClosed ==
    [][\A q \in DOMAIN queue' \ DOMAIN queue :
          queue'[q].by = "poll" => moderation_enabled \notin {"true", NoneValue}]_vars

\* C37: once a poll cycle is over, every stored entry has a queue row or
\* a preview that reached an operator; none is stored with neither.
C37_NoOrphanEntry ==
    (\A w \in Workers : ppc[w] = "idle") =>
        \A r \in items : QueueOf(r.id) # {} \/ r.id \in previews

\* C38: in every state, a callback or a command from a user who is not an
\* admin changes no feed, item, queue row, Publish row or setting, delivers
\* nothing, and is answered "no rights".
C38_StrangerChangesNothing ==
    /\ ~ENABLED (HandleCallbackQuery(Stranger) /\ (dbVars' # dbVars \/ answered'.text # "no rights"))
    /\ ~ENABLED (Command(Stranger) /\ (dbVars' # dbVars \/ answered'.text # "no rights"))

\* the stranger has just been turned away, in a store where a decision of
\* an admin has created a queue row
C38_Witness ==
    /\ answered = [to |-> "callback", id |-> Stranger, text |-> "no rights"]
    /\ \E q \in DOMAIN queue : queue[q].by = "delay"
    /\ previews # {}

\* C39: every entry a parser hands to the poll has a non-empty GUID, and
\* a successful poll of a JSON Feed whose N entries have no id and
\* distinct links stores N items.
C39_IdentifierResolved ==
    /\ \A w \in Workers : \A i \in 1..Len(payload[w]) : payload[w][i] # ""
    /\ (/\ h.outcome[1] = "ok"
        /\ "json" \in response.ctype
        /\ \A k \in 1..Len(response.entries) :
              response.entries[k].id = "" /\ response.entries[k].link # ""
        /\ \A k, l \in 1..Len(response.entries) :
              k # l => response.entries[k].link # response.entries[l].link)
       => Cardinality(items) = Len(response.entries)

\* C40: the hashtags of a normalized entry hold the tag of the language
\* _detect_language finds for that entry, and no other language tag:
\* '#english' for a text with more Latin than Cyrillic letters, the 'ru'
\* tag for a text with more Cyrillic letters or a tie.
C40_LanguageTagMatchesDetection ==
    item_dict.hashtags # NoneValue =>
        /\ item_dict.lang = DetectLanguage(item_dict.text)
        /\ \A l \in DOMAIN LanguageTags :
              LanguageTags[l] \in Range(item_dict.hashtags) <=> l = item_dict.lang
====
